---- MODULE Spec2Model ----
(***************************************************************************)
(* Model of the query pipeline of the news-synapse agent (src/src/agent.py *)
(* with src/src/news_bridge.py): one execution of process_query, the tool  *)
(* invoker call_news_tool and the NewsBridge search it wraps (Spec); the   *)
(* chat handlers handle_chat_message on the agent's event loop (ChatSpec); *)
(* and single calls of call_news_tool and of the functions of              *)
(* src/src/cultural_bridge.py (FnSpec).                                    *)
(*                                                                         *)
(* Text is modelled as a sequence of words (tokens); `in` and replace() on *)
(* strings become membership and removal of word sequences, the amount of  *)
(* white space between words is not represented.                           *)
(*                                                                         *)
(* process_query and call_news_tool read the module global news_bridge.    *)
(* The model takes both values of that global: None and a NewsBridge       *)
(* instance holding the attributes NewsBridge.__init__ assigns.  Note that *)
(* NewsBridge.__init__ (news_bridge.py:7) accepts only api_key, whereas    *)
(* agent.py:52 also passes collection_ids; the instance therefore has no   *)
(* collection_ids attribute.                                               *)
(***************************************************************************)
EXTENDS Integers, Sequences, FiniteSets, TLC

VARIABLES
    news_bridge,       \* agent.py:52   module global: None or a NewsBridge
    query,             \* the text handed to process_query
    pc,                \* position of process_query
    messages_history,  \* agent.py:205  conversation history of this query
    model_msg,         \* agent.py:203  message of the first model response
    tool_idx,          \* agent.py:264  index of the next tool call of the loop
    requests,          \* every chat-completion request sent, in order
    responses,         \* the outcome received for each request, in order
    invocations,       \* every tool call handled (loop or direct), in order
    ret,               \* value process_query returned
    raised,            \* TRUE iff an exception left process_query
    inbox,             \* agent.py:322  the ChatMessage each handler was called with
    hpc,               \* position of each handle_chat_message coroutine
    item_idx,          \* agent.py:329  index of the content item each handler is at
    running,           \* the handler holding the event loop's thread (0: none)
    events,            \* per handler: its sends, items visited and query results
    fn_input,          \* a function under test and the arguments it is called with
    fn_output          \* the value that call returned

\* one execution of process_query
queryVars == <<news_bridge, query, pc, messages_history, model_msg, tool_idx,
               requests, responses, invocations, ret, raised>>

\* the chat handlers running on the agent's event loop
chatVars == <<inbox, hpc, item_idx, running, events>>

\* one call of a function taken on its own
fnVars == <<fn_input, fn_output>>

vars == <<queryVars, chatVars, fnVars>>

-----------------------------------------------------------------------------
(* Bounds of the model *)

MaxToolCalls == 2
MaxApiStories == 7

(* Program constants *)

DEFAULT_DAYS_BACK == 7
DEFAULT_MAX_STORIES == 5
MAX_STORIES_CAP == 5
RESULT_CAP == 5
CLIENT_LIMIT == 5
MOCK_TEMPLATES == 4

Min2(a, b) == IF a <= b THEN a ELSE b
Max2(a, b) == IF a >= b THEN a ELSE b

-----------------------------------------------------------------------------
(* Python values *)

\* a leaf that is neither a date nor a datetime (str, int, bool, None)
PyOther(x) == [tag |-> "other", v |-> x]
PyDate(d) == [tag |-> "date", v |-> d]
PyDatetime(d) == [tag |-> "datetime", v |-> d]
PyDict(ks, vs) == [tag |-> "dict", keys |-> ks, vals |-> vs]
PyList(xs) == [tag |-> "list", items |-> xs]
PyObject(ks, vs) == [tag |-> "object", keys |-> ks, vals |-> vs]

\* datetime.isoformat() / date.isoformat(): a string, no longer a date
isoformat(d) == PyOther(<<"iso", d.tag, d.v>>)

\* date.strftime('%Y-%m-%d')
strftime_ymd(d) == PyOther(<<"ymd", d.v>>)

RECURSIVE serialize_datetime_objects_skipsLists(_)
\* mutant: the elements of a list are not visited
serialize_datetime_objects_skipsLists(obj) ==
    CASE obj.tag = "datetime" -> isoformat(obj)
      [] obj.tag = "date" -> isoformat(obj)
      [] obj.tag = "dict" ->
            PyDict(obj.keys,
                   [i \in DOMAIN obj.vals |-> serialize_datetime_objects_skipsLists(obj.vals[i])])
      [] obj.tag = "object" ->
            serialize_datetime_objects_skipsLists(PyDict(obj.keys, obj.vals))
      [] OTHER -> obj

RECURSIVE serialize_datetime_objects(_)
serialize_datetime_objects(obj) ==
    CASE obj.tag = "datetime" -> isoformat(obj)
      [] obj.tag = "date" -> isoformat(obj)
      [] obj.tag = "dict" ->
            PyDict(obj.keys,
                   [i \in DOMAIN obj.vals |-> serialize_datetime_objects(obj.vals[i])])
      [] obj.tag = "list" ->
            PyList([i \in DOMAIN obj.items |-> serialize_datetime_objects(obj.items[i])])
      [] obj.tag = "object" ->
            serialize_datetime_objects(PyDict(obj.keys, obj.vals))
      [] OTHER -> obj

\* dict.get(key, default)
DictGet(d, key, default) ==
    IF \E i \in DOMAIN d.keys : d.keys[i] = key
    THEN d.vals[CHOOSE i \in DOMAIN d.keys : d.keys[i] = key]
    ELSE default

\* s[:m] of Python, negative m included
PySlice(s, m) ==
    IF m >= 0 THEN SubSeq(s, 1, Min2(m, Len(s)))
    ELSE SubSeq(s, 1, Max2(Len(s) + m, 0))

-----------------------------------------------------------------------------
(* Text: words, keywords, filler phrases *)

Lower(w) ==
    CASE w = "Search" -> "search"
      [] w = "News" -> "news"
      [] w = "Please" -> "please"
      [] OTHER -> w

\* str.lower()
LowerText(q) == [i \in DOMAIN q |-> Lower(q[i])]

StartsWith(s, p) == Len(p) <= Len(s) /\ SubSeq(s, 1, Len(p)) = p

\* str.replace(phrase, ""): every non-overlapping occurrence, left to right
RECURSIVE Replace(_, _)
Replace(s, phrase) ==
    IF s = <<>> THEN <<>>
    ELSE IF StartsWith(s, phrase) THEN Replace(SubSeq(s, Len(phrase) + 1, Len(s)), phrase)
    ELSE <<Head(s)>> \o Replace(Tail(s), phrase)

\* any(keyword in query.lower() for keyword in [...])
HasKeyword(q, keywords) == \E i \in DOMAIN q : Lower(q[i]) \in keywords

Keywords500 == {"search", "find", "news", "stories", "article", "media", "latest", "recent"}
KeywordsRaw == Keywords500 \cup {"china", "usa", "latam"}

\* agent.py:153-155
Clean500(q) ==
    LET c == Replace(Replace(Replace(Replace(LowerText(q),
                 <<"search", "news", "about">>),
                 <<"find", "stories", "about">>),
                 <<"search">>),
                 <<"news">>)
    IN IF c = <<>> THEN q ELSE c

\* mutant: the raw-syntax path cleans the query with the phrases of the 500 path
CleanRaw_phrasesOf500(q) == Clean500(q)

\* agent.py:218-220
CleanRaw(q) ==
    LET c == Replace(Replace(Replace(Replace(Replace(Replace(LowerText(q),
                 <<"please", "search", "news", "about">>),
                 <<"search", "news", "about">>),
                 <<"find", "stories", "about">>),
                 <<"search">>),
                 <<"news">>),
                 <<"about">>)
    IN IF c = <<>> THEN q ELSE c

Queries ==
    { <<"Please", "search", "news", "about", "energy">>,
      <<"Search", "News">>,
      <<"china", "trade">>,
      <<"hello">> }

-----------------------------------------------------------------------------
(* Tool arguments *)

ArgAbsent == [p |-> FALSE, v |-> 0]
ArgInt(n) == [p |-> TRUE, v |-> n]
ArgAbsentSeq == [p |-> FALSE, v |-> <<>>]
ArgSeq(s) == [p |-> TRUE, v |-> s]
DaysAbsent == [p |-> FALSE, num |-> TRUE, v |-> 0]
DaysBad == [p |-> TRUE, num |-> FALSE, v |-> 0]

\* the dict handed to call_news_tool
ArgsDict(q, d, m, c) == [query |-> q, days_back |-> d, max_stories |-> m, collection_ids |-> c]

EmptyArgs == ArgsDict(ArgAbsentSeq, DaysAbsent, ArgAbsent, ArgAbsentSeq)

\* {"query": search_query}   agent.py:157, 223
QueryOnlyArgs(q) == ArgsDict(ArgSeq(q), DaysAbsent, ArgAbsent, ArgAbsentSeq)

\* max_stories as the model asks for it: negative, below and above the cap
\* (an absent max_stories comes with the null and empty arguments below)
RequestedMaxStories == {ArgInt(0 - 1), ArgInt(2), ArgInt(MAX_STORIES_CAP + 1)}

ModelArgs ==
    { ArgsDict(ArgSeq(<<"energy">>), DaysAbsent, m, ArgAbsentSeq) : m \in RequestedMaxStories }
    \cup { ArgsDict(ArgSeq(<<"energy">>), DaysBad, ArgAbsent, ArgAbsentSeq),
           ArgsDict(ArgSeq(<<"energy">>), DaysAbsent, ArgAbsent, ArgSeq(<<34412234>>)) }

\* the "arguments" field of a tool call as it arrives in the response
RawArguments ==
    { [kind |-> k, dict |-> EmptyArgs] : k \in {"absent", "null", "empty", "unparsable"} }
    \cup { [kind |-> "json", dict |-> a] : a \in ModelArgs }

\* json.loads(tool_call["function"]["arguments"] or "{}")   agent.py:266
ParseArguments(raw) ==
    CASE raw.kind = "absent" -> [ok |-> FALSE, err |-> "KeyError", dict |-> EmptyArgs]
      [] raw.kind = "unparsable" -> [ok |-> FALSE, err |-> "JSONDecodeError", dict |-> EmptyArgs]
      [] raw.kind \in {"null", "empty"} -> [ok |-> TRUE, err |-> "", dict |-> EmptyArgs]
      [] OTHER -> [ok |-> TRUE, err |-> "", dict |-> raw.dict]

-----------------------------------------------------------------------------
(* The MediaCloud client and NewsBridge   (news_bridge.py) *)

\* what one call of SearchApi.story_sample does: a list of n stories, or an
\* MCException (HTTP 429 rate limit; any other failure)
ApiStoryCounts == {0, 3, 6, MaxApiStories}

ApiOutcomes ==
    { [kind |-> "ok", n |-> k] : k \in ApiStoryCounts }
    \cup { [kind |-> "rate_limited", n |-> 0], [kind |-> "error", n |-> 0] }

ApiUnused == [kind |-> "unused", n |-> 0]

StoryKeys ==
    <<"stories_id", "title", "url", "publish_date", "media_name", "media_url",
      "language", "indexed_date", "ap_syndicated">>

\* story i as story_sample returns it (dates already turned into objects)
ApiStory(i) ==
    PyDict(<<"id", "title", "url", "publish_date", "media_name", "media_url",
             "language", "indexed_date">>,
           <<PyOther(<<"id", i>>), PyOther(<<"title", i>>), PyOther(<<"url", i>>),
             PyDate(i), PyOther(<<"media_name", i>>), PyOther(<<"media_url", i>>),
             PyOther(<<"language", i>>), PyDatetime(i)>>)

\* news_bridge.py:38-48
FormatStory(story) ==
    PyDict(StoryKeys,
           <<DictGet(story, "id", PyOther(<<"empty">>)),
             DictGet(story, "title", PyOther(<<"empty">>)),
             DictGet(story, "url", PyOther(<<"empty">>)),
             strftime_ymd(DictGet(story, "publish_date", PyDate(0))),
             DictGet(story, "media_name", PyOther(<<"empty">>)),
             DictGet(story, "media_url", PyOther(<<"empty">>)),
             DictGet(story, "language", PyOther(<<"en">>)),
             isoformat(DictGet(story, "indexed_date", PyDatetime(0))),
             PyOther(<<"False">>)>>)

\* news_bridge.py:141-192
_create_mock_stories(count) ==
    [i \in 1..Min2(count, MOCK_TEMPLATES) |->
        PyDict(StoryKeys,
               <<PyOther(<<"mock_id", i>>), PyOther(<<"mock_title", i>>),
                 PyOther(<<"mock_url", i>>), PyOther(<<"mock_ymd", i>>),
                 PyOther(<<"mock_media_name", i>>), PyOther(<<"mock_media_url", i>>),
                 PyOther(<<"en">>), PyOther(<<"mock_iso", i>>), PyOther(<<"False">>)>>)]

\* news_bridge.py:23-59: the client's exceptions end in mock stories
_make_api_request_with_client(api, limit) ==
    IF api.kind = "ok"
    THEN [i \in 1..api.n |-> FormatStory(ApiStory(i))]
    ELSE _create_mock_stories(limit)

\* news_bridge.py:61-69
_make_api_request(api) == _make_api_request_with_client(api, CLIENT_LIMIT)

\* news_bridge.py:194-219.  timedelta(days=days_back) raises TypeError for a
\* days_back that is not a number, before any request is made.
search_nuanced_news(days_back, max_stories, api) ==
    IF ~days_back.num
    THEN [raised |-> TRUE, err |-> "TypeError", stories |-> <<>>, L |-> <<>>, apiCalls |-> 0]
    ELSE LET stories == _make_api_request(api)
         IN [raised |-> FALSE, err |-> "", stories |-> PySlice(stories, max_stories),
             L |-> stories, apiCalls |-> 1]

\* mutant: the constructor also assigns collection_ids
NewsBridgeAttrs_withCollectionIds ==
    {"api_key", "search_client", "use_api_client", "collection_ids"}

\* the attributes NewsBridge.__init__ assigns (news_bridge.py:7-21)
NewsBridgeAttrs == {"api_key", "search_client", "use_api_client"}

\* The value of the module global news_bridge (agent.py:52).  collection_ids
\* is the value of the attribute of that name; it is <<>> for an instance
\* that has no such attribute.
NoBridge == [isNone |-> TRUE, attrs |-> {}, collection_ids |-> <<>>]
NewsBridge == [isNone |-> FALSE, attrs |-> NewsBridgeAttrs, collection_ids |-> <<>>]

-----------------------------------------------------------------------------
(* call_news_tool   (agent.py:74-109) *)

\* mutant: the failure does not say what went wrong
ToolFailure_anonymous(e) ==
    [ok |-> FALSE, err |-> "ValueError", result |-> <<>>, L |-> <<>>,
     searchCalls |-> 0, apiCalls |-> 0]

\* raise ValueError(f"Failed to fetch news data: {e}")   agent.py:107-109
ToolFailure(e) ==
    [ok |-> FALSE, err |-> e, result |-> <<>>, L |-> <<>>,
     searchCalls |-> 0, apiCalls |-> 0]

\* mutant: the requested max_stories is ignored
ClampMaxStories_ignoresRequest(m) == MAX_STORIES_CAP

\* min(args.get("max_stories", 5), 5)   agent.py:85
ClampMaxStories(m) ==
    Min2(IF m.p THEN m.v ELSE DEFAULT_MAX_STORIES, MAX_STORIES_CAP)

\* mutant: the result is not truncated
TruncateResult_noCap(result) == result

\* result[:5]   agent.py:98
TruncateResult(result) == PySlice(result, RESULT_CAP)

\* args.get("days_back", 7)   agent.py:84
DaysBack(d) == IF d.p THEN d ELSE [p |-> TRUE, num |-> TRUE, v |-> DEFAULT_DAYS_BACK]

\* TRUE iff this call reaches SearchApi.story_sample
ConsultsApi(bridge, func_name, args) ==
    /\ ~bridge.isNone
    /\ func_name = "search_news"
    /\ DaysBack(args.days_back).num
    /\ (args.collection_ids.p /\ Len(args.collection_ids.v) > 0)
          => "collection_ids" \in bridge.attrs

\* the outcome r of a call together with the value the global news_bridge
\* has while search_nuanced_news runs and the value it has when the call ends
WithBridge(r, during, after) ==
    [ok |-> r.ok, err |-> r.err, result |-> r.result, L |-> r.L,
     searchCalls |-> r.searchCalls, apiCalls |-> r.apiCalls,
     during |-> during, after |-> after]

\* news_bridge.collection_ids = collection_ids   agent.py:90
SwapCollectionIds(bridge, collection_ids) ==
    [bridge EXCEPT !.collection_ids = collection_ids]

\* finally: news_bridge.collection_ids = original_ids   agent.py:93-94
RestoreCollectionIds(bridge, original_ids) ==
    [bridge EXCEPT !.collection_ids = original_ids]

\* Every exception of the body is caught at line 107 and raised again as
\* ValueError("Failed to fetch news data: ..."): err names the inner error.
call_news_tool(bridge, func_name, args, api) ==
    IF bridge.isNone THEN WithBridge(ToolFailure("not_configured"), bridge, bridge)
    ELSE IF func_name # "search_news"
    THEN WithBridge(ToolFailure("unsupported_function"), bridge, bridge)
    ELSE LET days_back == DaysBack(args.days_back)
             max_stories == ClampMaxStories(args.max_stories)
             collection_ids == args.collection_ids
             swap == collection_ids.p /\ Len(collection_ids.v) > 0
         IN IF swap /\ "collection_ids" \notin bridge.attrs
            THEN \* line 89 reads an attribute the instance does not have
                 WithBridge(ToolFailure("AttributeError"), bridge, bridge)
            ELSE LET original_ids == bridge.collection_ids
                     during == IF swap THEN SwapCollectionIds(bridge, collection_ids.v)
                               ELSE bridge
                     after == IF swap THEN RestoreCollectionIds(during, original_ids)
                              ELSE bridge
                     s == search_nuanced_news(days_back, max_stories, api)
                 IN IF s.raised
                    THEN WithBridge([ToolFailure(s.err) EXCEPT !.searchCalls = 1,
                                                               !.apiCalls = s.apiCalls],
                                    during, after)
                    ELSE WithBridge(
                             [ok |-> TRUE, err |-> "",
                              result |->
                                  serialize_datetime_objects(
                                      PyList(TruncateResult(s.stories))).items,
                              L |-> s.L,
                              searchCalls |-> 1, apiCalls |-> s.apiCalls],
                             during, after)

-----------------------------------------------------------------------------
(* LLM messages, requests and responses *)

Text(t) == [tag |-> "str", leak |-> FALSE, v |-> t]
\* a content string holding one of the raw tool-call markers of agent.py:213
LeakText == [tag |-> "str", leak |-> TRUE, v |-> "tool_calls_begin"]
NullContent == [tag |-> "null", leak |-> FALSE, v |-> ""]
AbsentContent == [tag |-> "absent", leak |-> FALSE, v |-> ""]

CallId(i) == 100 + i

ToolCallVariants ==
    { [name |-> "search_news", arguments |-> r] : r \in RawArguments }
    \cup { [name |-> "get_weather", arguments |-> [kind |-> "json", dict |-> EmptyArgs]] }

\* the lists of n tool calls a response can carry; ids are distinct
ToolCallLists(n) ==
    { [i \in 1..n |-> [id |-> CallId(i), name |-> f[i].name, arguments |-> f[i].arguments]] :
        f \in [1..n -> ToolCallVariants] }

ToolCallsField ==
    { [kind |-> "absent", calls |-> <<>>], [kind |-> "null", calls |-> <<>>] }
    \cup { [kind |-> "list", calls |-> c] :
             c \in UNION { ToolCallLists(n) : n \in 0..MaxToolCalls } }

AssistantMsg(c, tc) == [role |-> "assistant", content |-> c, tool_calls |-> tc]
NoMsg == AssistantMsg(AbsentContent, [kind |-> "absent", calls |-> <<>>])

FirstContents == {Text("draft"), Text(""), LeakText, NullContent, AbsentContent}
ReplyContents == {Text("reply"), NullContent, AbsentContent}

\* Tool-call fields every query and every content is combined with
BasicToolCallsFields ==
    { [kind |-> "absent", calls |-> <<>>],
      [kind |-> "null", calls |-> <<>>],
      [kind |-> "list", calls |-> <<>>],
      [kind |-> "list", calls |->
          <<[id |-> CallId(1), name |-> "search_news",
             arguments |-> [kind |-> "null", dict |-> EmptyArgs]]>>],
      [kind |-> "list", calls |->
          <<[id |-> CallId(1), name |-> "get_weather",
             arguments |-> [kind |-> "json", dict |-> EmptyArgs]],
            [id |-> CallId(2), name |-> "search_news",
             arguments |-> [kind |-> "empty", dict |-> EmptyArgs]]>>] }

\* the query with which every list of tool calls is explored
ProbeQuery == <<"hello">>

\* choices[0].message of the first response: every content with the basic
\* tool-call fields, and every tool-call field with a plain text content
FirstMessages(q) ==
    { AssistantMsg(c, tc) : c \in FirstContents, tc \in BasicToolCallsFields }
    \cup (IF q = ProbeQuery
          THEN { AssistantMsg(Text("draft"), tc) : tc \in ToolCallsField }
          ELSE {})

\* what requests.post(...) ends in
RespException(e) == [kind |-> "exception", err |-> e, status |-> 0, msg |-> NoMsg]
RespStatus(st) == [kind |-> "status", err |-> "", status |-> st, msg |-> NoMsg]
\* status 200 with a body that is not JSON or has no choices[0].message
RespMalformed == [kind |-> "ok_malformed", err |-> "", status |-> 200, msg |-> NoMsg]
RespOk(m) == [kind |-> "ok", err |-> "", status |-> 200, msg |-> m]

TransportErrors == {"Timeout", "ConnectionError"}
ErrorStatuses == {500, 429}

ReplyOutcomes ==
    { RespException(e) : e \in TransportErrors }
    \cup { RespStatus(st) : st \in ErrorStatuses }
    \cup { RespMalformed }
    \cup { RespOk(AssistantMsg(c, [kind |-> "absent", calls |-> <<>>])) : c \in ReplyContents }

system_message == [role |-> "system"]
\* agent.py:120-123: the query followed by the philosophical analysis of it
initial_message(q) == [role |-> "user", query |-> q]

ToolMsg(id, payload) == [role |-> "tool", tool_call_id |-> id, payload |-> payload]

\* agent.py:128-135, 179-184, 248-253, 289-294
Request(kind, withTools, msgs) == [kind |-> kind, tools |-> withTools, messages |-> msgs]

\* json.dumps(result)   agent.py:277
ResultPayload(result) == [status |-> "ok", stories |-> result]

\* format_error_response(e)   agent.py:62-72
format_error_response(e) == <<"An error occurred while processing your request", e>>

\* mutant: the error object carries another status
ErrorPayload_wrongStatus(e, func_name) ==
    [status |-> "error", error |-> format_error_response(e), tool |-> func_name]

\* json.dumps({"error": ..., "status": "failed", "tool": func_name})   agent.py:281-283
ErrorPayload(e, func_name) ==
    [status |-> "failed", error |-> format_error_response(e), tool |-> func_name]

NEWS_TOOL_NAMES == {"search_news"}

-----------------------------------------------------------------------------
(* What process_query returns *)

RetPending == [kind |-> "pending"]
RetContent(c) == [kind |-> "content", content |-> c]
\* mutant: the technical-difficulty message names no status
RetTechnical_noStatus(st) == [kind |-> "technical", status |-> 0]
\* agent.py:196
RetTechnical(st) == [kind |-> "technical", status |-> st]

\* mutant: the apology of the raw-syntax path is the 'not found' text
RetApology_asNotFound == [kind |-> "not_found"]
\* agent.py:245
RetApology == [kind |-> "apology"]

RetNotFound == [kind |-> "not_found"]
RetTemplated(entries) == [kind |-> "templated", entries |-> entries]
RetError(e) == [kind |-> "error", e |-> e]

\* the returned value is a str (a null content is returned as None)
IsStr(r) == r.kind = "content" => r.content.tag = "str"

\* agent.py:160-173, 226-239
FormatStories(result) ==
    LET all == [i \in 1..Len(result) |->
                   [n |-> i,
                    isdict |-> result[i].tag = "dict",
                    title |-> IF result[i].tag = "dict"
                              THEN DictGet(result[i], "title", PyOther(<<"No Title">>))
                              ELSE PyOther(<<"No Title">>),
                    source |-> IF result[i].tag = "dict"
                               THEN DictGet(result[i], "media_name", PyOther(<<"Unknown source">>))
                               ELSE PyOther(<<"Unknown source">>),
                    date |-> IF result[i].tag = "dict"
                             THEN DictGet(result[i], "publish_date", PyOther(<<"Unknown date">>))
                             ELSE PyOther(<<"Unknown date">>),
                    link |-> IF result[i].tag = "dict"
                             THEN DictGet(result[i], "url", PyOther(<<"No URL">>))
                             ELSE PyOther(<<"No URL">>)]]
    IN SelectSeq(all, LAMBDA e : e.isdict)

\* mutant: the reply is read under a key it does not have
ReplyContent_wrongKey(out) == RetError("KeyError")

\* the value of choices[0].message.content of a 2xx reply, or the KeyError
ReplyContent(out) ==
    IF out.kind = "ok_malformed" \/ out.msg.content.tag = "absent"
    THEN RetError("KeyError")
    ELSE RetContent(out.msg.content)

\* agent.py:303-305: every Exception raised in the body is turned into a string
OuterExcept(e) == [raised |-> FALSE, ret |-> RetError(e)]

-----------------------------------------------------------------------------
(* process_query   (agent.py:118-305) *)

\* no handler and no function call is part of this specification
ChatIdle ==
    /\ inbox = <<>>
    /\ hpc = <<>>
    /\ item_idx = <<>>
    /\ running = 0
    /\ events = <<>>

FnIdle ==
    /\ fn_input = [fn |-> "none"]
    /\ fn_output = [done |-> FALSE]

\* no query is part of this specification
QueryIdle ==
    /\ news_bridge = NoBridge
    /\ query = <<>>
    /\ pc = "idle"
    /\ messages_history = <<>>
    /\ model_msg = NoMsg
    /\ tool_idx = 1
    /\ requests = <<>>
    /\ responses = <<>>
    /\ invocations = <<>>
    /\ ret = RetPending
    /\ raised = FALSE

Init ==
    /\ ChatIdle
    /\ FnIdle
    /\ news_bridge \in {NoBridge, NewsBridge}
    /\ query \in Queries
    /\ pc = "start"
    /\ messages_history = <<>>
    /\ model_msg = NoMsg
    /\ tool_idx = 1
    /\ requests = <<>>
    /\ responses = <<>>
    /\ invocations = <<>>
    /\ ret = RetPending
    /\ raised = FALSE

Return(r) == pc' = "done" /\ ret' = r /\ raised' = FALSE

Raise(e) ==
    LET h == OuterExcept(e)
    IN pc' = "done" /\ ret' = h.ret /\ raised' = h.raised

Send(req, next) == requests' = Append(requests, req) /\ pc' = next /\ UNCHANGED <<ret, raised>>

Invocation(via, idx, name, args, invoked, api, r) ==
    [via |-> via, idx |-> idx, name |-> name, args |-> args,
     invoked |-> invoked, api |-> api, r |-> r]

\* agent.py:120-143: the first request carries the tool schema
Start ==
    /\ pc = "start"
    /\ Send(Request("initial", TRUE, <<system_message, initial_message(query)>>),
            "await_initial")
    /\ UNCHANGED <<chatVars, fnVars, news_bridge, query, messages_history, model_msg, tool_idx,
                   responses, invocations>>

\* requests.post raises (timeout, connection failure): caught at line 303
InitialException ==
    /\ pc = "await_initial"
    /\ \E e \in TransportErrors :
          /\ responses' = Append(responses, RespException(e))
          /\ Raise(e)
    /\ UNCHANGED <<chatVars, fnVars, news_bridge, query, messages_history, model_msg, tool_idx,
                   requests, invocations>>

\* mutant: the fallback request carries the tool schema too
FallbackRequest_withTools ==
    Request("fallback", TRUE, <<system_message, initial_message(query)>>)

\* agent.py:179-189
FallbackRequest == Request("fallback", FALSE, <<system_message, initial_message(query)>>)

\* mutant: the message names the status of the fallback response
ReportedStatus_ofFallback(resp, fallback_resp) == fallback_resp.status

\* resp.status_code in the message of agent.py:196
ReportedStatus(resp, fallback_resp) == resp.status

\* agent.py:145-196: a status other than 200
InitialNon200 ==
    /\ pc = "await_initial"
    /\ \E st \in ErrorStatuses :
          /\ responses' = Append(responses, RespStatus(st))
          /\ IF st = 500
             THEN IF HasKeyword(query, Keywords500)
                  THEN pc' = "direct_500" /\ UNCHANGED <<requests, ret, raised>>
                  ELSE Send(FallbackRequest, "await_fallback")
             ELSE Return(RetTechnical(st)) /\ UNCHANGED requests
    /\ UNCHANGED <<chatVars, fnVars, news_bridge, query, messages_history, model_msg, tool_idx, invocations>>

\* agent.py:152-177: the direct search after a 500
Direct500Search ==
    /\ pc = "direct_500"
    /\ LET args == QueryOnlyArgs(Clean500(query))
       IN \E api \in (IF ConsultsApi(news_bridge, "search_news", args)
                      THEN ApiOutcomes ELSE {ApiUnused}) :
            LET r == call_news_tool(news_bridge, "search_news", args, api)
            IN /\ invocations' = Append(invocations,
                      Invocation("direct_500", 0, "search_news", args, TRUE, api, r))
               /\ news_bridge' = r.after
               /\ IF r.ok
                  THEN /\ IF r.result # <<>>
                          THEN Return(RetTemplated(FormatStories(r.result)))
                          ELSE Return(RetNotFound)
                       /\ UNCHANGED requests
                  ELSE Send(FallbackRequest, "await_fallback")
    /\ UNCHANGED <<chatVars, fnVars, query, messages_history, model_msg, tool_idx, responses>>

\* agent.py:185-196
FallbackResponse ==
    /\ pc = "await_fallback"
    /\ \E out \in ReplyOutcomes :
          /\ responses' = Append(responses, out)
          /\ CASE out.kind = "exception" -> Raise(out.err)
               [] out.kind = "status" ->
                    Return(RetTechnical(ReportedStatus(responses[1], out)))
               [] OTHER ->
                    LET c == ReplyContent(out)
                    IN IF c.kind = "error" THEN Raise(c.e) ELSE Return(c)
    /\ UNCHANGED <<chatVars, fnVars, news_bridge, query, messages_history, model_msg, tool_idx,
                   requests, invocations>>

\* model_msg.get("content", "")   agent.py:212
GetContent(m) == IF m.content.tag = "absent" THEN Text("") ELSE m.content

\* bool(model_msg.get("tool_calls", []))   agent.py:204, 208, 247
HasToolCalls(m) == m.tool_calls.kind = "list" /\ Len(m.tool_calls.calls) > 0

\* agent.py:198-262: a 200 response is interpreted
InitialOk ==
    /\ pc = "await_initial"
    /\ \E out \in { RespMalformed } \cup { RespOk(m) : m \in FirstMessages(query) } :
          /\ responses' = Append(responses, out)
          /\ IF out.kind = "ok_malformed"
             THEN /\ Raise("KeyError")
                  /\ UNCHANGED <<model_msg, messages_history, requests>>
             ELSE LET content == GetContent(out.msg)
                  IN /\ model_msg' = out.msg
                     /\ messages_history' =
                            <<system_message, initial_message(query), out.msg>>
                     /\ IF content.tag = "null"
                        THEN \* `marker in None` raises TypeError (line 213)
                             Raise("TypeError") /\ UNCHANGED requests
                        ELSE IF content.leak
                        THEN IF HasKeyword(query, KeywordsRaw)
                             THEN pc' = "direct_raw" /\ UNCHANGED <<requests, ret, raised>>
                             ELSE Return(RetApology) /\ UNCHANGED requests
                        ELSE IF ~HasToolCalls(out.msg)
                        THEN Send(Request("natural", FALSE,
                                          <<system_message, initial_message(query)>>),
                                  "await_natural")
                        ELSE pc' = "tools" /\ UNCHANGED <<requests, ret, raised>>
    /\ UNCHANGED <<chatVars, fnVars, news_bridge, query, tool_idx, invocations>>

\* agent.py:217-245: the direct search after raw tool syntax
DirectRawSearch ==
    /\ pc = "direct_raw"
    /\ LET args == QueryOnlyArgs(CleanRaw(query))
       IN \E api \in (IF ConsultsApi(news_bridge, "search_news", args)
                      THEN ApiOutcomes ELSE {ApiUnused}) :
            LET r == call_news_tool(news_bridge, "search_news", args, api)
            IN /\ invocations' = Append(invocations,
                      Invocation("direct_raw", 0, "search_news", args, TRUE, api, r))
               /\ news_bridge' = r.after
               /\ IF r.ok
                  THEN IF r.result # <<>>
                       THEN Return(RetTemplated(FormatStories(r.result)))
                       ELSE Return(RetNotFound)
                  ELSE Return(RetApology)
    /\ UNCHANGED <<chatVars, fnVars, query, messages_history, model_msg, tool_idx,
                   requests, responses>>

\* agent.py:255-262
NaturalResponse ==
    /\ pc = "await_natural"
    /\ \E out \in ReplyOutcomes :
          /\ responses' = Append(responses, out)
          /\ CASE out.kind = "exception" -> Raise(out.err)
               [] out.kind = "status" -> Raise("HTTPError")
               [] OTHER ->
                    LET c == ReplyContent(out)
                    IN IF c.kind = "error" THEN Raise(c.e) ELSE Return(c)
    /\ UNCHANGED <<chatVars, fnVars, news_bridge, query, messages_history, model_msg, tool_idx,
                   requests, invocations>>

\* agent.py:264-287: one iteration of the loop over tool_calls
ToolCallStep ==
    /\ pc = "tools"
    /\ tool_idx <= Len(model_msg.tool_calls.calls)
    /\ LET tool_call == model_msg.tool_calls.calls[tool_idx]
           func_name == tool_call.name
           parsed == ParseArguments(tool_call.arguments)
       IN IF ~parsed.ok
          THEN /\ Raise(parsed.err)
               /\ UNCHANGED <<news_bridge, messages_history, tool_idx, invocations>>
          ELSE /\ \E api \in (IF func_name \in NEWS_TOOL_NAMES
                                 /\ ConsultsApi(news_bridge, func_name, parsed.dict)
                              THEN ApiOutcomes ELSE {ApiUnused}) :
                    LET r == IF func_name \in NEWS_TOOL_NAMES
                             THEN call_news_tool(news_bridge, func_name, parsed.dict, api)
                             ELSE ToolFailure("unsupported_tool")
                        content_to_send ==
                             IF r.ok THEN ResultPayload(r.result)
                             ELSE ErrorPayload(r.err, func_name)
                    IN /\ invocations' = Append(invocations,
                              Invocation("loop", tool_idx, func_name, parsed.dict,
                                         func_name \in NEWS_TOOL_NAMES, api, r))
                       /\ messages_history' =
                              Append(messages_history, ToolMsg(tool_call.id, content_to_send))
                       /\ news_bridge' = IF func_name \in NEWS_TOOL_NAMES
                                         THEN r.after ELSE news_bridge
               /\ tool_idx' = tool_idx + 1
               /\ UNCHANGED <<pc, ret, raised>>
    /\ UNCHANGED <<chatVars, fnVars, query, model_msg, requests, responses>>

\* agent.py:289-299: the final request carries the whole history and no tools
SendFinal ==
    /\ pc = "tools"
    /\ tool_idx > Len(model_msg.tool_calls.calls)
    /\ Send(Request("final", FALSE, messages_history), "await_final")
    /\ UNCHANGED <<chatVars, fnVars, news_bridge, query, messages_history, model_msg, tool_idx,
                   responses, invocations>>

\* agent.py:300-301
FinalResponse ==
    /\ pc = "await_final"
    /\ \E out \in ReplyOutcomes :
          /\ responses' = Append(responses, out)
          /\ CASE out.kind = "exception" -> Raise(out.err)
               [] out.kind = "status" -> Raise("HTTPError")
               [] OTHER ->
                    LET c == ReplyContent(out)
                    IN IF c.kind = "error" THEN Raise(c.e) ELSE Return(c)
    /\ UNCHANGED <<chatVars, fnVars, news_bridge, query, messages_history, model_msg, tool_idx,
                   requests, invocations>>

Next ==
    \/ Start
    \/ InitialException
    \/ InitialNon200
    \/ Direct500Search
    \/ FallbackResponse
    \/ InitialOk
    \/ DirectRawSearch
    \/ NaturalResponse
    \/ ToolCallStep
    \/ SendFinal
    \/ FinalResponse

Spec == Init /\ [][Next]_vars

-----------------------------------------------------------------------------
(* handle_chat_message on the agent's event loop   (agent.py:321-352)       *)
(*                                                                         *)
(* Every inbound ChatMessage is handled by one coroutine.  The coroutines  *)
(* share the single thread of the event loop: a coroutine gives the thread *)
(* up only where it awaits something that suspends, which in this handler  *)
(* is ctx.send (lines 327, 342, 352).  `await process_query(...)` runs     *)
(* process_query on the same thread; its requests.post calls (lines 139,   *)
(* 185, 255, 295) and the search of call_news_tool (lines 92, 96) are      *)
(* synchronous calls, during which the coroutine keeps the thread.         *)
(* process_query is taken here by its outbound waits and by the value it   *)
(* returns; what it does in between is the subject of Spec.                *)

MaxHandlers == 2
MaxItems == 2

Handlers == 1..MaxHandlers

StartSessionContent == [type |-> "start-session"]
TextContent(t) == [type |-> "text", text |-> t]
\* a content item that is neither of the two (agent.py:343-344)
OtherContent == [type |-> "end-session"]

\* the text of an inbound text item
UserText == [kind |-> "query"]

ContentItems == {StartSessionContent, TextContent(UserText), OtherContent}

ContentLists == UNION { [1..n -> ContentItems] : n \in 0..MaxItems }

\* msg.msg_id of the message handler h is called with
MsgId(h) == h

InboundMessage(id, content) == [msg_id |-> id, content |-> content]

\* The first handler is called with every content list, the others with a
\* single text item.
InboundMessages(h) ==
    IF h = 1
    THEN { InboundMessage(MsgId(h), c) : c \in ContentLists }
    ELSE { InboundMessage(MsgId(h), <<TextContent(UserText)>>) }

\* mutant: the acknowledgement carries a fixed id
ChatAcknowledgement_fixedId(id) == [type |-> "ChatAcknowledgement", acknowledged_msg_id |-> 0]

\* agent.py:324-326
ChatAcknowledgement(id) == [type |-> "ChatAcknowledgement", acknowledged_msg_id |-> id]

\* agent.py:337-341, 347-351: a ChatMessage with one text content item
ChatMessage(text) == [type |-> "ChatMessage", content |-> <<TextContent(text)>>]

\* TextContent declares text: str, so building it from None raises a
\* validation error (agent.py:340)
BuildReply(response_text) ==
    IF IsStr(response_text)
    THEN [ok |-> TRUE, msg |-> ChatMessage(response_text)]
    ELSE [ok |-> FALSE, msg |-> ChatMessage(RetError("ValidationError"))]

\* f"An error occurred: {str(e)}"   agent.py:350
ErrorReply(e) == ChatMessage(RetError(e))

SendEvent(m) == [ev |-> "send", msg |-> m, status |-> "pending"]
ItemEvent(i, item) == [ev |-> "item", idx |-> i, type |-> item.type]
QueryEvent(i, r) == [ev |-> "query", idx |-> i, r |-> r]

\* the last event of a handler suspended in ctx.send is that send
Settle(evs, status) == [evs EXCEPT ![Len(evs)].status = status]

\* What process_query returns from each of its outbound waits (see Spec):
\* after the first request, after a news search, after a request without tools.
InitialResults == {RetTechnical(429)}
SearchResults == {RetNotFound}
ReplyResults == {RetContent(Text("reply")), RetContent(NullContent)}

\* the positions at which a handler is inside an outbound call of process_query
OutboundWaits == {"await_initial", "searching", "await_reply"}
Finished == {"returned", "propagated"}

\* index of the first text item at or after position from (Len + 1: none)
NextText(content, from) ==
    IF \E i \in from..Len(content) : content[i].type = "text"
    THEN CHOOSE i \in from..Len(content) :
            /\ content[i].type = "text"
            /\ \A j \in from..(i - 1) : content[j].type # "text"
    ELSE Len(content) + 1

\* agent.py:329-335: the loop goes on from item `from` up to the next text
\* item, for which process_query is called, or to the end of the content
Advance(h, from, evs) ==
    LET content == inbox[h].content
        i == NextText(content, from)
        last == IF i <= Len(content) THEN i ELSE Len(content)
        visited == [k \in 1..(last - from + 1) |->
                       ItemEvent(from + k - 1, content[from + k - 1])]
    IN /\ events' = [events EXCEPT ![h] = evs \o visited]
       /\ IF i <= Len(content)
          THEN /\ hpc' = [hpc EXCEPT ![h] = "await_initial"]
               /\ item_idx' = [item_idx EXCEPT ![h] = i]
               /\ running' = h
          ELSE /\ hpc' = [hpc EXCEPT ![h] = "returned"]
               /\ item_idx' = [item_idx EXCEPT ![h] = Len(content) + 1]
               /\ running' = 0

\* agent.py:335-342 (and 345-352 when the reply cannot be built):
\* process_query returned r; the reply is built and ctx.send is awaited
Finish(h, r) ==
    LET b == BuildReply(r)
    IN /\ events' = [events EXCEPT
                        ![h] = @ \o <<QueryEvent(item_idx[h], r), SendEvent(b.msg)>>]
       /\ hpc' = [hpc EXCEPT ![h] = IF b.ok THEN "reply_send" ELSE "error_send"]
       /\ running' = 0
       /\ UNCHANGED <<inbox, item_idx>>

ChatInit ==
    /\ inbox \in { f \in [Handlers -> UNION { InboundMessages(h) : h \in Handlers }] :
                     \A h \in Handlers : f[h] \in InboundMessages(h) }
    /\ hpc = [h \in Handlers |-> "queued"]
    /\ item_idx = [h \in Handlers |-> 0]
    /\ running = 0
    /\ events = [h \in Handlers |-> <<>>]
    /\ QueryIdle
    /\ FnIdle

\* agent.py:323-327: the handler starts, builds the acknowledgement and
\* awaits ctx.send
Dispatch(h) ==
    /\ hpc[h] = "queued"
    /\ running = 0
    /\ events' = [events EXCEPT
                     ![h] = <<SendEvent(ChatAcknowledgement(inbox[h].msg_id))>>]
    /\ hpc' = [hpc EXCEPT ![h] = "ack_send"]
    /\ UNCHANGED <<inbox, item_idx, running, queryVars, fnVars>>

\* ctx.send of the acknowledgement or of a reply returns: the loop goes on
SendReturns(h) ==
    /\ hpc[h] \in {"ack_send", "reply_send"}
    /\ running = 0
    /\ Advance(h, item_idx[h] + 1, Settle(events[h], "ok"))
    /\ UNCHANGED <<inbox, queryVars, fnVars>>

\* ctx.send of the acknowledgement or of a reply raises: the except clause
\* (agent.py:345-352) builds the error reply and awaits ctx.send
SendRaises(h) ==
    /\ hpc[h] \in {"ack_send", "reply_send"}
    /\ running = 0
    /\ events' = [events EXCEPT
                     ![h] = Append(Settle(@, "failed"), SendEvent(ErrorReply("SendError")))]
    /\ hpc' = [hpc EXCEPT ![h] = "error_send"]
    /\ UNCHANGED <<inbox, item_idx, running, queryVars, fnVars>>

\* agent.py:352 returns: the handler returns
ErrorSendReturns(h) ==
    /\ hpc[h] = "error_send"
    /\ running = 0
    /\ events' = [events EXCEPT ![h] = Settle(@, "ok")]
    /\ hpc' = [hpc EXCEPT ![h] = "returned"]
    /\ UNCHANGED <<inbox, item_idx, running, queryVars, fnVars>>

\* agent.py:352 raises inside the except clause: nothing catches it
ErrorSendRaises(h) ==
    /\ hpc[h] = "error_send"
    /\ running = 0
    /\ events' = [events EXCEPT ![h] = Settle(@, "failed")]
    /\ hpc' = [hpc EXCEPT ![h] = "propagated"]
    /\ UNCHANGED <<inbox, item_idx, running, queryVars, fnVars>>

\* the first request of process_query is answered (agent.py:139-143)
InitialResponds(h) ==
    /\ hpc[h] = "await_initial"
    /\ running = h
    /\ \/ \E next \in {"searching", "await_reply"} :
             /\ hpc' = [hpc EXCEPT ![h] = next]
             /\ UNCHANGED <<inbox, item_idx, running, events>>
       \/ \E r \in InitialResults : Finish(h, r)
    /\ UNCHANGED <<queryVars, fnVars>>

\* a search of call_news_tool returns (agent.py:92, 96)
SearchReturns(h) ==
    /\ hpc[h] = "searching"
    /\ running = h
    /\ \/ /\ hpc' = [hpc EXCEPT ![h] = "await_reply"]
          /\ UNCHANGED <<inbox, item_idx, running, events>>
       \/ \E r \in SearchResults : Finish(h, r)
    /\ UNCHANGED <<queryVars, fnVars>>

\* the fallback, natural or final request is answered (agent.py:185, 255, 295)
ReplyArrives(h) ==
    /\ hpc[h] = "await_reply"
    /\ running = h
    /\ \E r \in ReplyResults : Finish(h, r)
    /\ UNCHANGED <<queryVars, fnVars>>

\* every step handler h can take
HandlerStep(h) ==
    \/ Dispatch(h)
    \/ SendReturns(h)
    \/ SendRaises(h)
    \/ ErrorSendReturns(h)
    \/ ErrorSendRaises(h)
    \/ InitialResponds(h)
    \/ SearchReturns(h)
    \/ ReplyArrives(h)

ChatNext ==
    \/ \E h \in Handlers : Dispatch(h)
    \/ \E h \in Handlers : SendReturns(h)
    \/ \E h \in Handlers : SendRaises(h)
    \/ \E h \in Handlers : ErrorSendReturns(h)
    \/ \E h \in Handlers : ErrorSendRaises(h)
    \/ \E h \in Handlers : InitialResponds(h)
    \/ \E h \in Handlers : SearchReturns(h)
    \/ \E h \in Handlers : ReplyArrives(h)

ChatSpec == ChatInit /\ [][ChatNext]_vars

-----------------------------------------------------------------------------
(* Functions taken on their own: one call, on arguments drawn from bounded *)
(* sets.  OffensiveLanguageDetector is in cultural_bridge.py.              *)

MaxCategories == 3
MaxPatterns == 3
MaxTablePatterns == 2
MaxSuggestions == 2
MaxNodes == 3

\* the categories of _build_offensive_patterns, in table order
CategoryNames ==
    <<"racist_language", "misogynistic_language", "homophobic_language",
      "transphobic_language", "ableist_language", "classist_language",
      "xenophobic_language">>

RECURSIVE SortedSeq(_)
SortedSeq(S) ==
    IF S = {} THEN <<>>
    ELSE LET m == CHOOSE x \in S : \A y \in S : x <= y
         IN <<m>> \o SortedSeq(S \ {m})

\* the non-empty lists of matched patterns of one category, in table order
MatchLists == { SortedSeq(S) : S \in (SUBSET (1..MaxPatterns)) \ {{}} }

\* a dict {category: matches} as the sequence of its items in insertion order
DictItems(f) ==
    LET present == SelectSeq([i \in 1..MaxCategories |-> i], LAMBDA i : f[i] # <<>>)
    IN [k \in 1..Len(present) |->
           [category |-> CategoryNames[present[k]], matches |-> f[present[k]]]]

\* the results detect_offensive_language can return (cultural_bridge.py:178-190)
AnalysisResults ==
    { DictItems(f) : f \in [1..MaxCategories -> MatchLists \cup {<<>>}] }

\* mutant: several matched patterns in the only matched category are severe
_assess_severity_multiHitSevere(detected_issues) ==
    IF Len(detected_issues) = 0 THEN "none"
    ELSE IF Len(detected_issues) = 1 /\ Len(detected_issues[1].matches) = 1 THEN "mild"
    ELSE IF Len(detected_issues) = 1 THEN "severe"
    ELSE IF Len(detected_issues) <= 2 THEN "moderate"
    ELSE "severe"

\* mutant: one matched category is mild however many patterns matched
_assess_severity_oneCategoryMild(detected_issues) ==
    IF Len(detected_issues) = 0 THEN "none"
    ELSE IF Len(detected_issues) = 1 THEN "mild"
    ELSE IF Len(detected_issues) <= 2 THEN "moderate"
    ELSE "severe"

\* cultural_bridge.py:234-243
_assess_severity(detected_issues) ==
    IF Len(detected_issues) = 0 THEN "none"
    ELSE IF Len(detected_issues) = 1 /\ Len(detected_issues[1].matches) = 1 THEN "mild"
    ELSE IF Len(detected_issues) <= 2 THEN "moderate"
    ELSE "severe"

\* the pattern types of _build_stereotype_patterns, in table order
StereotypeNames ==
    <<"cultural_essentialism", "binary_thinking", "deficit_framing",
      "power_blindness">>

\* a category table {category: [patterns]} as the sequence of its items in
\* insertion order; a pattern is named by its position in its category
PatternTable(names) ==
    [c \in 1..Min2(MaxCategories, Len(names)) |->
        [category |-> names[c], patterns |-> [k \in 1..MaxTablePatterns |-> k]]]

offensive_patterns == PatternTable(CategoryNames)
stereotype_patterns == PatternTable(StereotypeNames)

\* a text, taken by what re.search finds in it: for each category of the
\* table, the set of that category's patterns that match
Texts(table) ==
    [ { table[c].category : c \in DOMAIN table } -> SUBSET (1..MaxTablePatterns) ]

\* re.search(pattern, text, re.IGNORECASE) is truthy
re_search(category, pattern, text) == pattern \in text[category]

\* mutant: a category is recorded even when none of its patterns matched
PatternScan_keepsEmpty(table, text) ==
    [c \in DOMAIN table |->
        [category |-> table[c].category,
         matches |-> SelectSeq(table[c].patterns,
                               LAMBDA p : re_search(table[c].category, p, text))]]

\* the loop of detect_offensive_language (cultural_bridge.py:180-190) and of
\* analyze_for_stereotypes (315-325): the same code over two tables
RECURSIVE PatternScan(_, _)
PatternScan(table, text) ==
    IF table = <<>> THEN <<>>
    ELSE LET category == Head(table).category
             matches == SelectSeq(Head(table).patterns,
                                  LAMBDA p : re_search(category, p, text))
             rest == PatternScan(Tail(table), text)
         IN IF matches # <<>>
            THEN <<[category |-> category, matches |-> matches]>> \o rest
            ELSE rest

detect_offensive_language(text) == PatternScan(offensive_patterns, text)
analyze_for_stereotypes(text) == PatternScan(stereotype_patterns, text)

\* a canned suggestion string of a category, and one that several
\* categories share
Canned(category, key, k) == <<category, key, k>>
Shared(key) == <<"shared", key, 0>>

\* the entry _build_alternative_suggestions gives a category: two lists of
\* strings of its own
CodeEntry(category) ==
    [general_guidance |-> [k \in 1..MaxSuggestions |-> Canned(category, "general_guidance", k)],
     specific_examples |-> [k \in 1..MaxSuggestions |-> Canned(category, "specific_examples", k)]]

\* entries of other tables: strings repeated within a list and shared with
\* other categories; an entry without "specific_examples"
SharedEntry(category) ==
    [general_guidance |-> <<Shared("general_guidance"),
                            Canned(category, "general_guidance", 1)>>,
     specific_examples |-> <<Canned(category, "specific_examples", 1),
                             Shared("specific_examples"),
                             Canned(category, "specific_examples", 1)>>]
PartialEntry(category) ==
    [general_guidance |-> <<Canned(category, "general_guidance", 1),
                            Shared("general_guidance")>>]

EntryKinds == {"code", "shared", "partial", "absent"}

TableEntry(kind, category) ==
    CASE kind = "code" -> CodeEntry(category)
      [] kind = "shared" -> SharedEntry(category)
      [] kind = "partial" -> PartialEntry(category)

TableCategories == { offensive_patterns[c].category : c \in DOMAIN offensive_patterns }

\* the values self.alternative_suggestions is given: a dict from some of
\* the categories to their entries
SuggestionTables ==
    { [category \in { c \in TableCategories : a[c] # "absent" } |->
          TableEntry(a[category], category)] :
      a \in [TableCategories -> EntryKinds] }

\* the table OffensiveLanguageDetector.__init__ builds
alternative_suggestions == [category \in TableCategories |-> CodeEntry(category)]

philosophical_insights ==
    <<"Consider the humanity and dignity of all people involved",
      "Ask whose voices and experiences are being centered or marginalized",
      "Examine how language can perpetuate or challenge systems of oppression",
      "Focus on building understanding rather than reinforcing divisions">>

\* category_data.get(key, [])
EntryGet(category_data, key) ==
    IF key \in DOMAIN category_data THEN category_data[key] ELSE <<>>

\* the list suggestions[key] after the loop over detected_issues.keys()
RECURSIVE Extended(_, _, _)
Extended(table, detected_issues, key) ==
    IF detected_issues = <<>> THEN <<>>
    ELSE LET category == Head(detected_issues).category
         IN (IF category \in DOMAIN table THEN EntryGet(table[category], key)
                                             ELSE <<>>)
            \o Extended(table, Tail(detected_issues), key)

\* mutant: the lists are returned as they were extended
dict_fromkeys_keepsDuplicates(xs) == xs

\* list(dict.fromkeys(xs)): the first occurrence of each string, in order
RECURSIVE dict_fromkeys(_)
dict_fromkeys(xs) ==
    IF xs = <<>> THEN <<>>
    ELSE LET init == dict_fromkeys(SubSeq(xs, 1, Len(xs) - 1))
             last == xs[Len(xs)]
         IN IF \E i \in DOMAIN init : init[i] = last THEN init
            ELSE Append(init, last)

suggest_alternatives(table, detected_issues) ==
    [specific_examples |->
         dict_fromkeys(Extended(table, detected_issues, "specific_examples")),
     general_guidance |->
         dict_fromkeys(Extended(table, detected_issues, "general_guidance")),
     philosophical_insights |-> dict_fromkeys(philosophical_insights)]

NoSuggestions ==
    [specific_examples |-> <<>>, general_guidance |-> <<>>,
     philosophical_insights |-> <<>>]

filter_and_suggest(text) ==
    LET detected == detect_offensive_language(text)
    IN [has_offensive_content |-> detected # <<>>,
        detected_issues |-> detected,
        suggestions |-> IF detected # <<>>
                        THEN suggest_alternatives(alternative_suggestions, detected)
                        ELSE NoSuggestions,
        severity |-> _assess_severity(detected)]

\* the dicts whose keys are some of the table's categories, one match each
KeyResults ==
    { d \in AnalysisResults : \A i \in DOMAIN d : d[i].matches = <<1>> }

\* values built from leaves, lists, dicts and objects with a __dict__
FieldNames == <<"publish_date", "title", "indexed_date", "media", "extra">>
PyLeaves ==
    {PyOther(<<"str", 1>>), PyOther(<<"none", 0>>), PyDate(1), PyDatetime(1)}
KeysFor(f) == [i \in DOMAIN f |-> FieldNames[i]]

RECURSIVE PyTrees(_), PyForests(_)
\* the values of n nodes
PyTrees(n) ==
    (IF n = 1 THEN PyLeaves ELSE {})
    \cup UNION { {PyList(f), PyDict(KeysFor(f), f), PyObject(KeysFor(f), f)} :
                  f \in PyForests(n - 1) }
\* the sequences of values of n nodes in all
PyForests(n) ==
    IF n = 0 THEN {<<>>}
    ELSE UNION { { <<t>> \o f : t \in PyTrees(m), f \in PyForests(n - m) } :
                 m \in 1..n }

PyValues == UNION { PyTrees(n) : n \in 1..MaxNodes }

FunctionNames == {"search_news", "get_weather", "search_cultural_bridge_news"}

FnInputs ==
    { [fn |-> "_assess_severity", detected_issues |-> d] : d \in AnalysisResults }
    \cup { [fn |-> "detect_offensive_language", text |-> t] : t \in Texts(offensive_patterns) }
    \cup { [fn |-> "analyze_for_stereotypes", text |-> t] : t \in Texts(stereotype_patterns) }
    \cup { [fn |-> "suggest_alternatives", table |-> t, detected_issues |-> d] :
               t \in SuggestionTables, d \in KeyResults }
    \cup { [fn |-> "filter_and_suggest", text |-> t] : t \in Texts(offensive_patterns) }
    \cup { [fn |-> "serialize_datetime_objects", obj |-> o] : o \in PyValues }
    \cup UNION { { [fn |-> "call_news_tool", bridge |-> b, func_name |-> n,
                    args |-> a, api |-> api] :
                      api \in (IF ConsultsApi(b, n, a) THEN ApiOutcomes ELSE {ApiUnused}) } :
                  b \in {NoBridge, NewsBridge}, n \in FunctionNames,
                  a \in ModelArgs \cup {EmptyArgs} }

FnInit ==
    /\ fn_input \in FnInputs
    /\ fn_output = [done |-> FALSE]
    /\ QueryIdle
    /\ ChatIdle

AssessSeverity ==
    /\ fn_input.fn = "_assess_severity"
    /\ ~fn_output.done
    /\ fn_output' = [done |-> TRUE, v |-> _assess_severity(fn_input.detected_issues)]
    /\ UNCHANGED <<fn_input, queryVars, chatVars>>

CallNewsTool ==
    /\ fn_input.fn = "call_news_tool"
    /\ ~fn_output.done
    /\ fn_output' = [done |-> TRUE,
                     v |-> call_news_tool(fn_input.bridge, fn_input.func_name,
                                          fn_input.args, fn_input.api)]
    /\ UNCHANGED <<fn_input, queryVars, chatVars>>

\* the results of the calls made so far, this call's added
Again(r) ==
    [done |-> TRUE, v |-> (IF fn_output.done THEN fn_output.v ELSE <<>>) \o <<r>>]

\* detect_offensive_language called, and called again, on one text
DetectOffensiveLanguage ==
    /\ fn_input.fn = "detect_offensive_language"
    /\ fn_output.done => Len(fn_output.v) < 2
    /\ fn_output' = Again(detect_offensive_language(fn_input.text))
    /\ UNCHANGED <<fn_input, queryVars, chatVars>>

AnalyzeForStereotypes ==
    /\ fn_input.fn = "analyze_for_stereotypes"
    /\ fn_output.done => Len(fn_output.v) < 2
    /\ fn_output' = Again(analyze_for_stereotypes(fn_input.text))
    /\ UNCHANGED <<fn_input, queryVars, chatVars>>

SuggestAlternatives ==
    /\ fn_input.fn = "suggest_alternatives"
    /\ ~fn_output.done
    /\ fn_output' = [done |-> TRUE,
                     v |-> suggest_alternatives(fn_input.table, fn_input.detected_issues)]
    /\ UNCHANGED <<fn_input, queryVars, chatVars>>

FilterAndSuggest ==
    /\ fn_input.fn = "filter_and_suggest"
    /\ ~fn_output.done
    /\ fn_output' = [done |-> TRUE, v |-> filter_and_suggest(fn_input.text)]
    /\ UNCHANGED <<fn_input, queryVars, chatVars>>

\* serialize_datetime_objects applied to a value, then to its own output
SerializeDatetimeObjects ==
    /\ fn_input.fn = "serialize_datetime_objects"
    /\ fn_output.done => Len(fn_output.v) < 2
    /\ fn_output' = Again(serialize_datetime_objects(
                              IF fn_output.done THEN fn_output.v[1] ELSE fn_input.obj))
    /\ UNCHANGED <<fn_input, queryVars, chatVars>>

FnNext ==
    \/ AssessSeverity
    \/ CallNewsTool
    \/ DetectOffensiveLanguage
    \/ AnalyzeForStereotypes
    \/ SuggestAlternatives
    \/ FilterAndSuggest
    \/ SerializeDatetimeObjects

FnSpec == FnInit /\ [][FnNext]_vars

-----------------------------------------------------------------------------
(* Properties *)

Done == pc = "done"

\* the first response is a 200 carrying a message
FirstOk == Len(responses) >= 1 /\ responses[1].kind = "ok"
FirstIs500 == Len(responses) >= 1 /\ responses[1].kind = "status" /\ responses[1].status = 500

\* a 200 reply whose body holds choices[0].message.content
HasReplyContent(out) == out.kind = "ok" /\ out.msg.content.tag # "absent"

FirstCalls == responses[1].msg.tool_calls.calls

AllArgumentsParse == \A i \in DOMAIN FirstCalls : ParseArguments(FirstCalls[i].arguments).ok

LoopFailures == { i \in DOMAIN invocations : invocations[i].via = "loop" /\ ~invocations[i].r.ok }

\* C1: process_query returns a string and never raises, whatever the LLM, the
\* tools and the news configuration do.
C1_ReturnsString == Done => (~raised /\ IsStr(ret))

C3_InitialRequestRetried ==
    (Done /\ Len(responses) >= 1
          /\ (FirstIs500 \/ responses[1] = RespException("Timeout")))
        => Cardinality({ i \in DOMAIN requests : requests[i].kind = "initial" }) = 2

\* C4: when the search is rate limited call_news_tool tries again (up to 3
\* attempts, raising only after the third failure); when the search raises
\* any other error it raises after the first attempt.
C4_RateLimitRetried ==
    \A i \in DOMAIN invocations :
        LET v == invocations[i]
        IN /\ v.api.kind = "rate_limited" => (v.r.apiCalls > 1 /\ v.r.searchCalls > 1)
           /\ (v.r.searchCalls > 0 /\ v.r.err = "TypeError")
                 => (~v.r.ok /\ v.r.searchCalls = 1)

\* C5: a successful call_news_tool returns at most 5 stories, whatever
\* max_stories asks for and however many stories the search returns.
C5_AtMostFiveStories ==
    \A i \in DOMAIN invocations :
        invocations[i].r.ok => Len(invocations[i].r.result) <= 5

C5_Witness ==
    \E i \in DOMAIN invocations :
        /\ invocations[i].r.ok
        /\ invocations[i].args.max_stories.p
        /\ invocations[i].args.max_stories.v > 5
        /\ Len(invocations[i].r.L) > 5
        /\ Len(invocations[i].r.result) = 5

\* max_stories as requested, capped at 5 (5 when absent)
RequestedCapped(args) ==
    IF args.max_stories.p THEN Min2(args.max_stories.v, 5) ELSE 5

\* C6 (as stated): a successful call_news_tool returns exactly the first
\* min(|L|, m) elements of the list L the search obtained, in their order,
\* m being the requested max_stories capped at 5.
C6_FirstMinStories ==
    \A i \in DOMAIN invocations :
        LET v == invocations[i]
        IN v.r.ok => v.r.result = SubSeq(v.r.L, 1, Min2(Len(v.r.L), RequestedCapped(v.args)))

\* C6 (amended): the same for a max_stories that is absent or not negative;
\* for a negative max_stories -k the result is the first min(5, max(|L|-k, 0))
\* elements of L.
C6_FirstMinStoriesNonNegative ==
    \A i \in DOMAIN invocations :
        LET v == invocations[i]
            m == RequestedCapped(v.args)
        IN v.r.ok =>
             IF m >= 0
             THEN v.r.result = SubSeq(v.r.L, 1, Min2(Len(v.r.L), m))
             ELSE v.r.result = SubSeq(v.r.L, 1, Min2(5, Max2(Len(v.r.L) + m, 0)))

C6_Witness ==
    \E i \in DOMAIN invocations :
        /\ invocations[i].r.ok
        /\ ~invocations[i].args.max_stories.p
        /\ Len(invocations[i].r.L) = 6
        /\ invocations[i].r.result = SubSeq(invocations[i].r.L, 1, 5)

\* C7: a first response with tool calls and no leakage marker in its content
\* (text, empty, absent or null) has every tool call handled, then a final
\* request without tools whose messages are [system, user, assistant] followed
\* by one tool message per call, in call order and with the call's id; the
\* content of the final reply is returned.
C7_ToolCallsThenFinal ==
    (Done /\ FirstOk /\ HasToolCalls(responses[1].msg)
          /\ ~responses[1].msg.content.leak /\ AllArgumentsParse)
        => LET n == Len(FirstCalls)
           IN /\ Len(invocations) = n
              /\ \A i \in 1..n : invocations[i].via = "loop" /\ invocations[i].idx = i
              /\ Len(requests) = 2
              /\ requests[2].kind = "final"
              /\ ~requests[2].tools
              /\ Len(requests[2].messages) = 3 + n
              /\ SubSeq(requests[2].messages, 1, 3)
                     = <<system_message, initial_message(query), responses[1].msg>>
              /\ \A i \in 1..n :
                     /\ requests[2].messages[3 + i].role = "tool"
                     /\ requests[2].messages[3 + i].tool_call_id = FirstCalls[i].id
              /\ (Len(responses) = 2 /\ HasReplyContent(responses[2]))
                     => ret = RetContent(responses[2].msg.content)

C9_UnconfiguredBridge ==
    (Done /\ news_bridge.isNone /\ FirstOk /\ HasToolCalls(responses[1].msg)
          /\ ~responses[1].msg.content.leak /\ AllArgumentsParse)
        => /\ \A i \in DOMAIN FirstCalls :
                FirstCalls[i].name = "search_news" =>
                    /\ Len(invocations) >= i
                    /\ ~invocations[i].r.ok
                    /\ invocations[i].r.err = "not_configured"
                    /\ Len(messages_history) >= 3 + i
                    /\ messages_history[3 + i].role = "tool"
                    /\ messages_history[3 + i].payload.status = "failed"
           /\ Len(requests) = 2
           /\ requests[2].kind = "final"
           /\ (Len(responses) = 2 /\ HasReplyContent(responses[2]))
                 => ret = RetContent(responses[2].msg.content)

\* the query without its filler phrases, as the raw-syntax path must pass it
ExpectedRawQuery(q) ==
    CASE q = <<"Please", "search", "news", "about", "energy">> -> <<"energy">>
      [] q = <<"Search", "News">> -> <<"Search", "News">>
      [] OTHER -> q

LeakWithKeyword ==
    FirstOk /\ responses[1].msg.content.leak /\ HasKeyword(query, KeywordsRaw)

FirstContent == responses[1].msg.content

C12_NaturalRequest ==
    (Done /\ FirstOk /\ ~FirstContent.leak /\ ~HasToolCalls(responses[1].msg))
        => /\ Len(requests) = 2
           /\ requests[2].kind = "natural"
           /\ ~requests[2].tools
           /\ requests[2].messages = <<system_message, initial_message(query)>>
           /\ invocations = <<>>
           /\ (Len(responses) = 2 /\ HasReplyContent(responses[2]))
                 => ret = RetContent(responses[2].msg.content)

ToolPath ==
    /\ FirstOk
    /\ FirstContent.tag # "null"
    /\ ~FirstContent.leak
    /\ HasToolCalls(responses[1].msg)

EmptyArgumentKinds == {"empty", "null", "absent"}

\* C25: a tool call whose arguments field is an empty string, null or
\* absent is given the empty argument set and its tool is invoked with it;
\* the tool-call path is not abandoned with an error: every tool call gets
\* its invocation and the final request is sent.
C25_EmptyArgumentsAreEmptySet ==
    (Done /\ ToolPath
          /\ \A i \in DOMAIN FirstCalls : FirstCalls[i].arguments.kind # "unparsable")
        => /\ Len(requests) = 2
           /\ requests[2].kind = "final"
           /\ Len(invocations) = Len(FirstCalls)
           /\ \A i \in DOMAIN FirstCalls :
                 FirstCalls[i].arguments.kind \in EmptyArgumentKinds
                     => /\ invocations[i].invoked
                        /\ invocations[i].args = EmptyArgs

\* the same for the empty string and null alone
C25_EmptyOrNullArguments ==
    (Done /\ ToolPath
          /\ \A i \in DOMAIN FirstCalls :
                FirstCalls[i].arguments.kind \notin {"unparsable", "absent"})
        => /\ Len(requests) = 2
           /\ requests[2].kind = "final"
           /\ Len(invocations) = Len(FirstCalls)
           /\ \A i \in DOMAIN FirstCalls :
                 FirstCalls[i].arguments.kind \in {"empty", "null"}
                     => /\ invocations[i].invoked
                        /\ invocations[i].args = EmptyArgs

\* C27: at most 2 chat-completion requests are sent in an execution of
\* process_query, and only the first carries the tool schema and
\* tool_choice: the fallback, natural and final requests carry no tools.
C27_AtMostTwoRequests ==
    /\ Len(requests) <= 2
    /\ \A i \in DOMAIN requests :
          /\ requests[i].tools <=> i = 1
          /\ requests[i].kind = "initial" <=> i = 1
          /\ requests[i].kind \in {"initial", "fallback", "natural", "final"}
    /\ Done => Len(responses) = Len(requests)

C27_Witness ==
    /\ Done
    /\ FirstIs500
    /\ Len(requests) = 2
    /\ requests[2].kind = "fallback"
    /\ ~requests[2].tools
    /\ Len(invocations) = 1

C30_FallbackFailureNames500 ==
    (Done /\ FirstIs500 /\ Len(responses) = 2 /\ responses[2].kind = "status")
        => /\ ret = [kind |-> "technical", status |-> 500]
           /\ ~raised
           /\ Len(requests) = 2
           /\ requests[2].kind = "fallback"
           /\ \A i \in DOMAIN invocations : ~invocations[i].r.ok

C30_Witness ==
    /\ Done
    /\ Len(responses) = 2
    /\ responses[1] = RespStatus(500)
    /\ responses[2] = RespStatus(429)
    /\ Len(invocations) = 1
    /\ ret.kind = "technical"

-----------------------------------------------------------------------------
(* Properties of the chat handlers (ChatSpec) *)

\* C14: while one handler waits on an outbound LLM request or on a news
\* search, every other handler that has not finished can take a step.
C14_WaitsDoNotBlock ==
    \A h \in DOMAIN hpc : \A g \in DOMAIN hpc :
        (h # g /\ hpc[h] \in OutboundWaits /\ hpc[g] \notin Finished)
            => ENABLED HandlerStep(g)

\* C16: whatever process_query returns and whichever call of ctx.send fails
\* (the acknowledgement, a reply, the error reply), no exception leaves
\* handle_chat_message.
C16_NoExceptionPropagates ==
    \A h \in DOMAIN hpc : hpc[h] # "propagated"

IsAck(e) == e.ev = "send" /\ e.msg.type = "ChatAcknowledgement"

\* C17: a handler calls ctx.send with exactly one acknowledgement; it carries
\* the msg_id of the handler's message and is sent before any content item
\* is visited, any query processed and any reply sent.
C17_AcknowledgedFirst ==
    \A h \in DOMAIN hpc :
        IF hpc[h] = "queued"
        THEN events[h] = <<>>
        ELSE /\ Len(events[h]) >= 1
             /\ events[h][1].ev = "send"
             /\ events[h][1].msg =
                    [type |-> "ChatAcknowledgement", acknowledged_msg_id |-> inbox[h].msg_id]
             /\ \A i \in 2..Len(events[h]) : ~IsAck(events[h][i])

C17_Witness ==
    \E h \in DOMAIN hpc :
        /\ hpc[h] = "returned"
        /\ h = 2
        /\ Len(events[h]) = 4
        /\ IsAck(events[h][1]) /\ events[h][1].msg.acknowledged_msg_id = 2
        /\ events[h][2].ev = "item"
        /\ events[h][3].ev = "query"
        /\ events[h][4].ev = "send" /\ events[h][4].status = "ok"

\* the indices of the text items of a content list, in order
TextItems(content) ==
    LET idx == [i \in 1..Len(content) |-> i]
    IN SelectSeq(idx, LAMBDA i : content[i].type = "text")

NoSendFailed(evs) == \A i \in DOMAIN evs : evs[i].ev = "send" => evs[i].status = "ok"

RepliesOf(evs) == SelectSeq(evs, LAMBDA e : e.ev = "send" /\ e.msg.type = "ChatMessage")
QueriesOf(evs) == SelectSeq(evs, LAMBDA e : e.ev = "query")

\* C18: for a message whose items are start-session markers and text items,
\* a handler that finished without a failed send has sent exactly one reply
\* per text item, in item order, each holding one text content item with the
\* value process_query returned for that item, and nothing for the markers.
C18_OneReplyPerTextItem ==
    \A h \in DOMAIN hpc :
        (/\ hpc[h] \in Finished
         /\ \A i \in DOMAIN inbox[h].content :
               inbox[h].content[i].type \in {"start-session", "text"}
         /\ NoSendFailed(events[h]))
        => LET texts == TextItems(inbox[h].content)
               replies == RepliesOf(events[h])
               queries == QueriesOf(events[h])
           IN /\ Len(replies) = Len(texts)
              /\ Len(queries) = Len(texts)
              /\ \A k \in DOMAIN texts :
                    /\ queries[k].idx = texts[k]
                    /\ replies[k].msg.content = <<[type |-> "text", text |-> queries[k].r]>>

-----------------------------------------------------------------------------
(* Properties of single function calls (FnSpec) *)

Called(f) == fn_input.fn = f /\ fn_output.done

\* C19 (as stated): call_news_tool called with a function name other than
\* search_news fails with the unsupported-function error and calls no
\* search, whether or not the news bridge is configured.
C19_UnsupportedWhateverTheBridge ==
    (Called("call_news_tool") /\ fn_input.func_name # "search_news")
        => /\ ~fn_output.v.ok
           /\ fn_output.v.err = "unsupported_function"
           /\ fn_output.v.searchCalls = 0
           /\ fn_output.v.apiCalls = 0

\* C19 (amended): call_news_tool called with a function name other than
\* search_news fails and calls no search; the error is the unsupported-
\* function error when the news bridge is configured and the 'not
\* configured' error when it is not.  The arguments are not validated: the
\* other failures are errors raised while the search is prepared or runs.
C19_UnsupportedWhenConfigured ==
    Called("call_news_tool") =>
        /\ fn_input.func_name # "search_news" =>
              /\ ~fn_output.v.ok
              /\ fn_output.v.searchCalls = 0
              /\ fn_output.v.apiCalls = 0
              /\ fn_output.v.err = IF fn_input.bridge.isNone THEN "not_configured"
                                   ELSE "unsupported_function"
        /\ (fn_input.func_name = "search_news" /\ ~fn_output.v.ok) =>
              fn_output.v.err \in {"not_configured", "AttributeError", "TypeError"}

C19_Witness ==
    /\ Called("call_news_tool")
    /\ fn_input.func_name = "get_weather"
    /\ ~fn_input.bridge.isNone
    /\ fn_output.v.err = "unsupported_function"

RECURSIVE TotalMatches(_)
TotalMatches(d) ==
    IF d = <<>> THEN 0 ELSE Len(Head(d).matches) + TotalMatches(Tail(d))

\* C20: _assess_severity returns "none" for the empty result, "mild" exactly
\* when one category matched and one pattern matched in total, "severe"
\* exactly when more than 2 categories matched, "moderate" otherwise.
C20_SeverityBoundaries ==
    Called("_assess_severity") =>
        LET d == fn_input.detected_issues
            categories == Len(d)
            total == TotalMatches(d)
        IN fn_output.v = CASE categories = 0 -> "none"
                           [] categories = 1 /\ total = 1 -> "mild"
                           [] categories > 2 -> "severe"
                           [] OTHER -> "moderate"

C20_Witness ==
    /\ Called("_assess_severity")
    /\ Len(fn_input.detected_issues) = 1
    /\ Len(fn_input.detected_issues[1].matches) = 3
    /\ fn_output.v = "moderate"

\* C21 (as stated): _assess_severity returns "severe" for a result with one
\* matched category that has three matched patterns, and "moderate" for a
\* result with two categories of one matched pattern each.
C21_ThreeHitsSevere ==
    Called("_assess_severity") =>
        LET d == fn_input.detected_issues
        IN /\ (Len(d) = 1 /\ Len(d[1].matches) = 3) => fn_output.v = "severe"
           /\ (Len(d) = 2 /\ Len(d[1].matches) = 1 /\ Len(d[2].matches) = 1)
                  => fn_output.v = "moderate"

\* C21 (amended): _assess_severity returns "moderate" for a result with one
\* matched category that has three matched patterns, and "moderate" for a
\* result with two categories of one matched pattern each.
C21_ThreeHitsModerate ==
    Called("_assess_severity") =>
        LET d == fn_input.detected_issues
        IN /\ (Len(d) = 1 /\ Len(d[1].matches) = 3) => fn_output.v = "moderate"
           /\ (Len(d) = 2 /\ Len(d[1].matches) = 1 /\ Len(d[2].matches) = 1)
                  => fn_output.v = "moderate"

C21_Witness ==
    /\ Called("_assess_severity")
    /\ fn_input.detected_issues =
          <<[category |-> "racist_language", matches |-> <<1, 2, 3>>]>>
    /\ fn_output.v = "moderate"

\* the position of a category in a table's insertion order
TablePosition(table, category) ==
    CHOOSE c \in DOMAIN table : table[c].category = category

\* the scan's result holds a category iff the text matches one of its
\* patterns, in the table's order, and every call returned the same result
ScanIsExact(table) ==
    LET text == fn_input.text
        r == fn_output.v[1]
    IN /\ \A c \in DOMAIN table :
             (\E i \in DOMAIN r : r[i].category = table[c].category)
                 <=> (\E p \in 1..MaxTablePatterns : p \in text[table[c].category])
       /\ \A i, j \in DOMAIN r :
             i < j => TablePosition(table, r[i].category)
                          < TablePosition(table, r[j].category)
       /\ \A k \in DOMAIN fn_output.v : fn_output.v[k] = r

FirstIndex(xs, x) ==
    CHOOSE i \in DOMAIN xs : xs[i] = x /\ \A j \in 1..(i - 1) : xs[j] # x

\* out is xs without its repeated strings, in order of first occurrence
FirstOccurrences(out, xs) ==
    /\ \A i, j \in DOMAIN out : i # j => out[i] # out[j]
    /\ { out[i] : i \in DOMAIN out } = { xs[i] : i \in DOMAIN xs }
    /\ \A i, j \in DOMAIN out : i < j => FirstIndex(xs, out[i]) < FirstIndex(xs, out[j])

\* C23: each of the three lists suggest_alternatives returns has no
\* duplicate string, and its strings are in the order of their first
\* occurrence in the concatenation of the matched categories' canned
\* suggestions, the categories taken in the order of the result.
C23_ListsDeduplicated ==
    Called("suggest_alternatives") =>
        /\ \A key \in {"specific_examples", "general_guidance"} :
              FirstOccurrences(fn_output.v[key],
                               Extended(fn_input.table, fn_input.detected_issues, key))
        /\ FirstOccurrences(fn_output.v.philosophical_insights, philosophical_insights)

C23_Witness ==
    /\ Called("suggest_alternatives")
    /\ Len(fn_input.detected_issues) >= 2
    /\ Len(fn_output.v.specific_examples) >= 2
    /\ Len(fn_output.v.specific_examples)
          < Len(Extended(fn_input.table, fn_input.detected_issues, "specific_examples"))
    /\ Len(fn_output.v.general_guidance)
          < Len(Extended(fn_input.table, fn_input.detected_issues, "general_guidance"))

\* the strings the table holds for the categories of a result
TableStrings(table, detected_issues, key) ==
    UNION { { EntryGet(table[c], key)[k] : k \in DOMAIN EntryGet(table[c], key) } :
            c \in { detected_issues[i].category : i \in DOMAIN detected_issues }
                    \cap DOMAIN table }

\* C24: for every AnalysisResult, the empty one and one whose categories
\* are all missing from the suggestion table included, the
\* philosophical_insights list of the composed SuggestionSet is the fixed
\* list of insight strings, and a category missing from the table adds
\* nothing and raises no error.  The SuggestionSet is the one
\* suggest_alternatives returns and the one filter_and_suggest returns.
C24_InsightsAlways ==
    /\ Called("suggest_alternatives") =>
          /\ fn_output.v.philosophical_insights = philosophical_insights
          /\ \A key \in {"specific_examples", "general_guidance"} :
                { fn_output.v[key][k] : k \in DOMAIN fn_output.v[key] }
                    = TableStrings(fn_input.table, fn_input.detected_issues, key)
    /\ Called("filter_and_suggest") =>
          fn_output.v.suggestions.philosophical_insights = philosophical_insights

\* the SuggestionSet suggest_alternatives returns alone
C24_InsightsOfSuggestAlternatives ==
    Called("suggest_alternatives") =>
        /\ fn_output.v.philosophical_insights = philosophical_insights
        /\ \A key \in {"specific_examples", "general_guidance"} :
              { fn_output.v[key][k] : k \in DOMAIN fn_output.v[key] }
                  = TableStrings(fn_input.table, fn_input.detected_issues, key)

RECURSIVE NoDates(_)
\* no date and no datetime is left in a value
NoDates(t) ==
    CASE t.tag \in {"date", "datetime"} -> FALSE
      [] t.tag = "list" -> \A i \in DOMAIN t.items : NoDates(t.items[i])
      [] t.tag \in {"dict", "object"} -> \A i \in DOMAIN t.vals : NoDates(t.vals[i])
      [] OTHER -> TRUE

RECURSIVE Converted(_, _)
\* out is t with each date and datetime replaced by its ISO-8601 string:
\* the other leaves, the order of lists and the keys of mappings are those
\* of t; an object is given as the mapping of its fields
Converted(t, out) ==
    CASE t.tag = "date" -> out = PyOther(<<"iso", "date", t.v>>)
      [] t.tag = "datetime" -> out = PyOther(<<"iso", "datetime", t.v>>)
      [] t.tag = "other" -> out = t
      [] t.tag = "list" ->
            /\ out.tag = "list"
            /\ Len(out.items) = Len(t.items)
            /\ \A i \in DOMAIN t.items : Converted(t.items[i], out.items[i])
      [] t.tag \in {"dict", "object"} ->
            /\ out.tag = "dict"
            /\ out.keys = t.keys
            /\ Len(out.vals) = Len(t.vals)
            /\ \A i \in DOMAIN t.vals : Converted(t.vals[i], out.vals[i])

\* C26: for every value built from lists, mappings and objects with
\* introspectable fields, the output of serialize_datetime_objects holds no
\* date or datetime (each is replaced by its ISO-8601 string), keeps every
\* other leaf, the order of lists and the keys of mappings, and applying
\* the function to its output gives that output again.
C26_DatesSerialized ==
    Called("serialize_datetime_objects") =>
        /\ NoDates(fn_output.v[1])
        /\ Converted(fn_input.obj, fn_output.v[1])
        /\ \A k \in DOMAIN fn_output.v : fn_output.v[k] = fn_output.v[1]

C26_Witness ==
    /\ Called("serialize_datetime_objects")
    /\ Len(fn_output.v) = 2
    /\ fn_input.obj =
          PyList(<<PyObject(<<"publish_date">>, <<PyDatetime(1)>>)>>)
    /\ fn_output.v[2] =
          PyList(<<PyDict(<<"publish_date">>, <<PyOther(<<"iso", "datetime", 1>>)>>)>>)

\* C28: when call_news_tool is given a non-empty collection_ids argument,
\* the search runs with the bridge's collection_ids replaced by the
\* argument, and when call_news_tool finishes, the search having returned or
\* raised, the bridge has its original value again.
C28_CollectionIdsSwappedAndRestored ==
    (/\ Called("call_news_tool")
     /\ ~fn_input.bridge.isNone
     /\ fn_input.func_name = "search_news"
     /\ fn_input.args.collection_ids.p
     /\ Len(fn_input.args.collection_ids.v) > 0)
        => /\ fn_output.v.searchCalls = 1
           /\ fn_output.v.during.collection_ids = fn_input.args.collection_ids.v
           /\ fn_output.v.after = fn_input.bridge

====
